---- MODULE Spec2Model ----
(***************************************************************************)
(* TradeView dashboard (src/app.py): the data fetch, the indicator engine  *)
(* (calculate_metrics) and the page script that renders the metric cards   *)
(* and the four tabs.                                                      *)
(*                                                                         *)
(* Numbers.  Floating-point values are modelled exactly: a value is a      *)
(* record [k, n, d], k = "num" for the rational n/d (d > 0), k = "nan" for *)
(* NaN and k = "inf" for +infinity.  Dates are day numbers (1, 2, ...).    *)
(* Sequences are 1-based: position p of a column is pandas' index p-1.     *)
(***************************************************************************)
EXTENDS Integers, Sequences, FiniteSets, TLC

\* ------------------------------------------------------------------ bounds
\* Longest series the provider returns in the page model.
MaxBars == 14
\* Longest series handed to calculate_metrics in the indicator model.
MaxSeriesLen == 51

\* --------------------------------------------------------- program constants
SMA50Window == 50
SMA200Window == 200
BBWindow == 20
RSIWindow == 14
MinForecastBars == 10
FutureDays == 30
Lookback == 300

\* Shape of the generated close-price series: Close(p) = BasePrice +
\* slope*(p-1), plus BumpSize at one position.
BasePrice == 60
BumpSize == 3

VARIABLES
    pc,            \* position of the page script
    comp_ticker,   \* TRUE iff a comparison ticker was entered
    resp1,         \* what the provider answered for the primary ticker
    raw_df1,       \* get_data(ticker)[0]
    view_start1,   \* get_data(ticker)[1]
    raw_df2,       \* get_data(comp_ticker)[0], None without comparison ticker
    df1,           \* calculate_metrics(raw_df1)
    view_df1,      \* df1[df1.index >= view_start1]
    cards,         \* the four metric cards
    tab1, tab2, tab3, tab4,   \* what each tab rendered
    page,          \* page-level outcome
    revised        \* indicator model: position of the bar revised, 0 = none

vars == <<pc, comp_ticker, resp1, raw_df1, view_start1, raw_df2, df1, view_df1,
          cards, tab1, tab2, tab3, tab4, page, revised>>

\* ------------------------------------------------------------------ numbers
NaN == [k |-> "nan", n |-> 0, d |-> 1]
Inf == [k |-> "inf", n |-> 1, d |-> 1]
Num(a, b) == [k |-> "num", n |-> a, d |-> b]
IsNum(v) == v.k = "num"
isna(v) == v.k = "nan"
\* a = b, a > b for two rationals (denominators are positive)
NumEq(a, b) == IsNum(a) /\ IsNum(b) /\ a.n * b.d = b.n * a.d
NumGt(a, b) == IsNum(a) /\ IsNum(b) /\ a.n * b.d > b.n * a.d
NumLt(a, b) == IsNum(a) /\ IsNum(b) /\ a.n * b.d < b.n * a.d

RECURSIVE SumRange(_, _, _)
\* s[lo] + ... + s[hi]
SumRange(s, lo, hi) == IF lo > hi THEN 0 ELSE s[hi] + SumRange(s, lo, hi - 1)

\* ------------------------------------------------------------- data frames
None == [none |-> TRUE]
NoDate == 0
\* A frame as the provider returns it: index and Close, no indicator columns.
Frame(dates, closes) ==
    [index |-> dates, Close |-> closes, hascols |-> FALSE,
     SMA_50 |-> <<>>, SMA_200 |-> <<>>, BB_Upper |-> <<>>, BB_Lower |-> <<>>,
     RSI |-> <<>>]
len(df) == Len(df.index)
empty(df) == Len(df.index) = 0

\* ------------------------------------------------------- calculate_metrics
\* mutant: a window centred on the bar (one bar of look-ahead)
RollingMeanCentered(s, w) ==
    [p \in 1..Len(s) |->
        IF p < w - 1 \/ p + 1 > Len(s) THEN NaN
        ELSE Num(SumRange(s, p - w + 2, p + 1), w)]

\* Series.rolling(window=w).mean(): trailing window, NaN until w values exist
RollingMean(s, w) ==
    [p \in 1..Len(s) |->
        IF p < w THEN NaN ELSE Num(SumRange(s, p - w + 1, p), w)]

\* Series.rolling(window=w).std(): sample variance (n-1 denominator) of the
\* trailing window; kept as the variance numerator and denominator, the std
\* being its square root.  var = (w*Sum(x^2) - Sum(x)^2) / (w*(w-1)).
RollingVar(s, w) ==
    LET sq == [p \in 1..Len(s) |-> s[p] * s[p]]
    IN  [p \in 1..Len(s) |->
            IF p < w THEN NaN
            ELSE Num(w * SumRange(sq, p - w + 1, p)
                       - SumRange(s, p - w + 1, p) * SumRange(s, p - w + 1, p),
                     w * (w - 1))]

\* sma20 +/- 2*std: the band is kept as its mid line and the variance under
\* the root; side = 1 for the upper band, -1 for the lower band.
Band(mid, var, side) ==
    [p \in 1..Len(mid) |->
        IF isna(mid[p]) \/ isna(var[p])
        THEN [k |-> "nan", mid |-> NaN, var |-> NaN, side |-> side]
        ELSE [k |-> "num", mid |-> mid[p], var |-> var[p], side |-> side]]

\* df['Close'].diff(): NaN at the first position
diff(s) ==
    [p \in 1..Len(s) |-> IF p = 1 THEN NaN ELSE Num(s[p] - s[p - 1], 1)]

\* delta.where(delta > 0, 0): NaN > 0 is False, so NaN becomes 0
WherePositive(delta) ==
    [p \in 1..Len(delta) |->
        IF IsNum(delta[p]) /\ delta[p].n > 0 THEN delta[p].n ELSE 0]

\* -delta.where(delta < 0, 0)
WhereNegativeNegated(delta) ==
    [p \in 1..Len(delta) |->
        IF IsNum(delta[p]) /\ delta[p].n < 0 THEN -delta[p].n ELSE 0]

\* gain / loss in floating point: x/0 = inf for x > 0, 0/0 = NaN
Divide(gain, loss) ==
    IF isna(gain) \/ isna(loss) THEN NaN
    ELSE IF loss.n = 0 THEN (IF gain.n = 0 THEN NaN ELSE Inf)
    ELSE Num(gain.n * loss.d, loss.n * gain.d)

\* 100 - (100 / (1 + rs))
RSIFromRS(rs) ==
    IF isna(rs) THEN NaN
    ELSE IF rs.k = "inf" THEN Num(100, 1)
    ELSE Num(100 * (rs.d + rs.n) - 100 * rs.d, rs.d + rs.n)

RSIColumn(close) ==
    LET delta == diff(close)
        gain == RollingMean(WherePositive(delta), RSIWindow)
        loss == RollingMean(WhereNegativeNegated(delta), RSIWindow)
    IN  [p \in 1..Len(close) |-> RSIFromRS(Divide(gain[p], loss[p]))]

calculate_metrics(df) ==
    IF len(df) < 2 THEN df
    ELSE LET sma20 == RollingMean(df.Close, BBWindow)
             std == RollingVar(df.Close, BBWindow)
         IN  [df EXCEPT !.hascols = TRUE,
                        !.SMA_50 = RollingMean(df.Close, SMA50Window),
                        !.SMA_200 = RollingMean(df.Close, SMA200Window),
                        !.BB_Upper = Band(sma20, std, 1),
                        !.BB_Lower = Band(sma20, std, -1),
                        !.RSI = RSIColumn(df.Close)]

\* ----------------------------------------------------- provider test data
Slopes == {-1, 0, 1}
\* closes of a series of n bars: a line, with a bump at position bumpAt
\* (0 = no bump)
Closes(n, slope, bumpAt) ==
    [p \in 1..n |->
        BasePrice + slope * (p - 1) + (IF p = bumpAt THEN BumpSize ELSE 0)]
\* the days 1..n
Daily(n) == [p \in 1..n |-> p]

\* ---------------------------------------------------------------- get_data
\* What yf.Ticker(symbol).history(...) can do: raise, or return a frame
\* (possibly empty).
Exception == [kind |-> "exception", df |-> None]
Data(df) == [kind |-> "data", df |-> df]

\* the positions of df whose date is >= start, in order
RowsFrom(df, start) ==
    SelectSeq(Daily(len(df)), LAMBDA p : df.index[p] >= start)

\* the rows of df at the positions pos
Rows(df, pos) ==
    LET pick(col) == [i \in 1..Len(pos) |-> col[pos[i]]]
    IN  IF df.hascols
        THEN [index |-> pick(df.index), Close |-> pick(df.Close), hascols |-> TRUE,
              SMA_50 |-> pick(df.SMA_50), SMA_200 |-> pick(df.SMA_200),
              BB_Upper |-> pick(df.BB_Upper), BB_Lower |-> pick(df.BB_Lower),
              RSI |-> pick(df.RSI)]
        ELSE Frame(pick(df.index), pick(df.Close))

\* stock.history(start=math_start, end=end_date): the bars from math_start on
history(resp, math_start) == Rows(resp.df, RowsFrom(resp.df, math_start))

\* mutant: the empty result is handed on instead of (None, None)
get_data_KeepEmpty(resp, view_start) ==
    IF resp.kind = "exception" THEN <<None, NoDate>>
    ELSE <<history(resp, view_start - Lookback), view_start>>

\* get_data(symbol, tf_label); the timeframe label and today's date are
\* given as the view_start they resolve to.  Returns <<df, view_start>>, or
\* <<None, NoDate>> for (None, None).
get_data(resp, view_start) ==
    IF resp.kind = "exception" THEN <<None, NoDate>>
    ELSE LET math_start == view_start - Lookback
             df == history(resp, math_start)
         IN  IF empty(df) THEN <<None, NoDate>> ELSE <<df, view_start>>

\* ------------------------------------------------------------ page helpers
\* view_df1['Close'].pct_change().std() * 100 * (252**0.5).  The std of the
\* len-1 returns is NaN with fewer than 2 returns and 0 when all returns are
\* equal; a positive value is kept as k = "pos" (its magnitude is not needed
\* by any branch of the page).  Returns r, r' are equal iff
\* close[p]*close[q-1] = close[q]*close[p-1].
PctChangeStd(close) ==
    IF Len(close) - 1 < 2 THEN NaN
    ELSE IF \A p, q \in 2..Len(close) :
               close[p] * close[q - 1] = close[q] * close[p - 1]
         THEN Num(0, 1)
         ELSE [k |-> "pos", n |-> 1, d |-> 1]

\* Series.corr: Pearson r = cov / sqrt(vx * vy), NaN when a variance is 0
\* (one observation, or a constant series)
corr(x, y) ==
    LET n == Len(x)
        xy == [p \in 1..n |-> x[p] * y[p]]
        xx == [p \in 1..n |-> x[p] * x[p]]
        yy == [p \in 1..n |-> y[p] * y[p]]
        sx == SumRange(x, 1, n)
        sy == SumRange(y, 1, n)
        cov == n * SumRange(xy, 1, n) - sx * sy
        vx == n * SumRange(xx, 1, n) - sx * sx
        vy == n * SumRange(yy, 1, n) - sy * sy
    IN  IF vx = 0 \/ vy = 0
        THEN [k |-> "nan", cov |-> 0, vx |-> 0, vy |-> 0]
        ELSE [k |-> "num", cov |-> cov, vx |-> vx, vy |-> vy]

\* np.polyfit(X, y, 1) with X = 0..n-1: the least-squares line, as
\* <<slope, intercept>>
polyfit(y) ==
    LET n == Len(y)
        X == [p \in 1..n |-> p - 1]
        xy == [p \in 1..n |-> X[p] * y[p]]
        xx == [p \in 1..n |-> X[p] * X[p]]
        sx == SumRange(X, 1, n)
        sy == SumRange(y, 1, n)
        D == n * SumRange(xx, 1, n) - sx * sx
    IN  <<Num(n * SumRange(xy, 1, n) - sx * sy, D),
          Num(sy * SumRange(xx, 1, n) - sx * SumRange(xy, 1, n), D)>>

\* np.poly1d(z)(x) = z[0]*x + z[1]; polyfit gives both coefficients over the
\* same denominator
poly1d(z, x) == Num(z[1].n * x + z[2].n, z[1].d)

\* np.arange(start, stop)
arange(start, stop) == [i \in 1..(stop - start) |-> start + i - 1]

\* df.loc[date, 'Close']
loc(df, date) == df.Close[CHOOSE p \in 1..len(df) : df.index[p] = date]

\* mutant: the dates common to both series, without the view-start filter
common_idx_NoViewFilter(a, b, view_start) ==
    SelectSeq(a.index, LAMBDA d : \E q \in 1..len(b) : b.index[q] = d)

\* df1.index.intersection(raw_df2.index), then [common_idx >= view_start1]
common_idx_of(a, b, view_start) ==
    SelectSeq(SelectSeq(a.index, LAMBDA d : \E q \in 1..len(b) : b.index[q] = d),
              LAMBDA d : d >= view_start)

\* (df.loc[idx, 'Close'] / base - 1) * 100
normalize(df, idx, base) ==
    [i \in 1..Len(idx) |-> Num((loc(df, idx[i]) - base) * 100, base)]

\* curr_price >= bb_upper, curr_price <= bb_lower for a band
\* mid + side*2*sqrt(var): with a = curr - mid, a >= 2*sqrt(var) iff a >= 0
\* and a^2 >= 4*var.
AtOrAbove(price, band) ==
    LET a == Num(price * band.mid.d - band.mid.n, band.mid.d)
    IN  a.n >= 0 /\ a.n * a.n * band.var.d >= 4 * band.var.n * a.d * a.d
AtOrBelow(price, band) ==
    LET a == Num(price * band.mid.d - band.mid.n, band.mid.d)
    IN  a.n <= 0 /\ a.n * a.n * band.var.d >= 4 * band.var.n * a.d * a.d

\* ------------------------------------------------------- provider test data
Dates(pattern, last) ==
    SelectSeq(Daily(last),
              LAMBDA d : \/ pattern = "daily"
                         \/ pattern = "odd" /\ d % 2 = 1
                         \/ pattern = "even" /\ d % 2 = 0)

Series(pattern, last, slope, bump) ==
    LET dates == Dates(pattern, last)
    IN  Frame(dates, Closes(Len(dates), slope, IF bump THEN Len(dates) ELSE 0))

Responses1 ==
    {Exception, Data(Frame(<<>>, <<>>))}
    \cup {Data(Series(pattern, last, slope, bump)) :
            pattern \in {"daily", "odd"}, last \in 1..MaxBars,
            slope \in Slopes, bump \in BOOLEAN}

Responses2 ==
    {Exception, Data(Frame(<<>>, <<>>))}
    \cup {Data(Series(pattern, last, slope, FALSE)) :
            pattern \in {"daily", "odd", "even"}, last \in {2, MaxBars},
            slope \in {0, 1}}

ViewStarts == 1..(MaxBars + 1)

\* ---------------------------------------------------------------- the page
Init ==
    /\ pc = "start"
    /\ comp_ticker = FALSE
    /\ resp1 = "none"
    /\ raw_df1 = None
    /\ view_start1 = NoDate
    /\ raw_df2 = None
    /\ df1 = None
    /\ view_df1 = None
    /\ cards = None /\ tab1 = None /\ tab2 = None /\ tab3 = None /\ tab4 = None
    /\ page = "running"
    /\ revised = 0

\* lines 129-130: raw_df1, view_start1 = get_data(ticker, selected_tf);
\* raw_df2, _ = get_data(comp_ticker, selected_tf) if comp_ticker else (None, None)
GetData ==
    /\ pc = "start"
    /\ \E view_start \in ViewStarts, r1 \in Responses1, entered \in BOOLEAN :
         \E r2 \in (IF entered THEN Responses2 ELSE {Exception}) :
            /\ comp_ticker' = entered
            /\ resp1' = (IF r1.kind = "exception" THEN "exception"
                         ELSE IF empty(r1.df) THEN "empty" ELSE "data")
            /\ raw_df1' = get_data(r1, view_start)[1]
            /\ view_start1' = get_data(r1, view_start)[2]
            /\ raw_df2' = (IF entered THEN get_data(r2, view_start)[1] ELSE None)
    /\ pc' = "guard"
    /\ UNCHANGED <<df1, view_df1, cards, tab1, tab2, tab3, tab4, page, revised>>

\* line 132 false, lines 294-295: st.warning("Data not found.")
DataNotFound ==
    /\ pc = "guard"
    /\ ~(raw_df1 # None /\ ~empty(raw_df1))
    /\ page' = "data_not_found"
    /\ pc' = "done"
    /\ UNCHANGED <<comp_ticker, resp1, raw_df1, view_start1, raw_df2, df1, view_df1,
                   cards, tab1, tab2, tab3, tab4, revised>>

\* lines 134-139: the indicators, the view slice and the empty-view stop
CalculateAndSlice ==
    /\ pc = "guard"
    /\ raw_df1 # None /\ ~empty(raw_df1)
    /\ LET df == calculate_metrics(raw_df1)
           view == Rows(df, RowsFrom(df, view_start1))
       IN  /\ df1' = df
           /\ raw_df1' = df      \* calculate_metrics adds the columns in place
           /\ view_df1' = view
           /\ IF empty(view)
              THEN page' = "timeframe_empty" /\ pc' = "stopped"
              ELSE page' = page /\ pc' = "cards"
    /\ UNCHANGED <<comp_ticker, resp1, view_start1, raw_df2,
                   cards, tab1, tab2, tab3, tab4, revised>>

\* except Exception as e: st.error(f"Error: {e}") -- the rest of the try
\* block is skipped and the footer is rendered
Raise ==
    /\ page' = "error"
    /\ pc' = "done"

\* lines 142-159: the four metric cards
MetricCards ==
    /\ pc = "cards"
    /\ LET n == len(view_df1)
       IN  IF n < 2 \/ ~df1.hascols
           THEN \* view_df1['Close'].iloc[-2]: IndexError; df1['RSI']: KeyError
                Raise /\ cards' = cards
           ELSE LET curr_price == view_df1.Close[n]
                    prev_price == view_df1.Close[n - 1]
                    volatility == IF n > 1 THEN PctChangeStd(view_df1.Close)
                                  ELSE Num(0, 1)
                    last_rsi == df1.RSI[len(df1)]
                IN  /\ cards' =
                         [price |-> Num(curr_price, 1),
                          delta |-> Num(curr_price - prev_price, 1),
                          volatility |-> volatility,
                          rsi_txt |-> IF isna(last_rsi)
                                      THEN [text |-> "N/A", value |-> NaN]
                                      ELSE [text |-> "value", value |-> last_rsi],
                          c4 |-> IF raw_df2 # None
                                 THEN [label |-> "comp_price",
                                       value |-> Num(raw_df2.Close[len(raw_df2)], 1)]
                                 ELSE [label |-> "Volume", value |-> NaN]]
                    /\ pc' = "tab1"
                    /\ page' = page
    /\ UNCHANGED <<comp_ticker, resp1, raw_df1, view_start1, raw_df2, df1, view_df1,
                   tab1, tab2, tab3, tab4, revised>>

\* lines 165-190: price chart and trend insight
Tab1 ==
    /\ pc = "tab1"
    /\ LET sma_val == df1.SMA_50[len(df1)]
           curr_price == view_df1.Close[len(view_df1)]
       IN  tab1' =
             [sma_trace |-> \E p \in 1..len(view_df1) : ~isna(view_df1.SMA_50[p]),
              insight |-> IF isna(sma_val) THEN "Insufficient Data"
                          ELSE IF NumGt(Num(curr_price, 1), sma_val) THEN "BULLISH"
                          ELSE "BEARISH"]
    /\ pc' = "tab2"
    /\ UNCHANGED <<comp_ticker, resp1, raw_df1, view_start1, raw_df2, df1, view_df1,
                   cards, tab2, tab3, tab4, page, revised>>

\* lines 193-236: Bollinger and RSI charts, momentum insight
Tab2 ==
    /\ pc = "tab2"
    /\ LET last_rsi == df1.RSI[len(df1)]
           curr_price == view_df1.Close[len(view_df1)]
           bb_upper == df1.BB_Upper[len(df1)]
           bb_lower == df1.BB_Lower[len(df1)]
       IN  tab2' =
             [rsi_msg |-> IF isna(last_rsi) THEN "Calculating..."
                          ELSE IF NumGt(last_rsi, Num(70, 1)) THEN "Overbought"
                          ELSE IF NumLt(last_rsi, Num(30, 1)) THEN "Oversold"
                          ELSE "Neutral",
              bb_status |-> IF bb_upper.k = "nan" THEN "within"
                            ELSE IF AtOrAbove(curr_price, bb_upper) THEN "upper"
                            ELSE IF AtOrBelow(curr_price, bb_lower) THEN "lower"
                            ELSE "within"]
    /\ pc' = "tab3"
    /\ UNCHANGED <<comp_ticker, resp1, raw_df1, view_start1, raw_df2, df1, view_df1,
                   cards, tab1, tab3, tab4, page, revised>>

\* lines 239-261: comparison
Tab3 ==
    /\ pc = "tab3"
    /\ IF raw_df2 # None
       THEN LET common_idx == common_idx_of(df1, raw_df2, view_start1)
            IN  IF Len(common_idx) > 0
                THEN LET base1 == loc(df1, common_idx[1])
                         base2 == loc(raw_df2, common_idx[1])
                     IN  tab3' =
                           [kind |-> "comparison",
                            common_idx |-> common_idx,
                            base1 |-> base1,
                            base2 |-> base2,
                            norm1 |-> normalize(df1, common_idx, base1),
                            norm2 |-> normalize(raw_df2, common_idx, base2),
                            corr |-> corr([i \in 1..Len(common_idx) |->
                                              loc(df1, common_idx[i])],
                                          [i \in 1..Len(common_idx) |->
                                              loc(raw_df2, common_idx[i])])]
                ELSE tab3' = [kind |-> "warning"]
       ELSE tab3' = [kind |-> "info"]
    /\ pc' = "tab4"
    /\ UNCHANGED <<comp_ticker, resp1, raw_df1, view_start1, raw_df2, df1, view_df1,
                   cards, tab1, tab2, tab4, page, revised>>

\* lines 264-289: linear-regression forecast, then the end of the try block
Tab4 ==
    /\ pc = "tab4"
    /\ IF len(view_df1) > MinForecastBars
       THEN LET n == len(view_df1)
                z == polyfit(view_df1.Close)
                last_x == n - 1
                future_X == arange(last_x, last_x + FutureDays)
            IN  tab4' =
                  [kind |-> "forecast",
                   z |-> z,
                   future_X |-> future_X,
                   future_dates |-> [i \in 1..FutureDays |-> view_df1.index[n] + i],
                   forecast |-> [i \in 1..FutureDays |-> poly1d(z, future_X[i])],
                   trend |-> IF NumGt(z[1], Num(0, 1)) THEN "UPWARD" ELSE "DOWNWARD"]
       ELSE tab4' = [kind |-> "warning"]
    /\ page' = "ok"
    /\ pc' = "done"
    /\ UNCHANGED <<comp_ticker, resp1, raw_df1, view_start1, raw_df2, df1, view_df1,
                   cards, tab1, tab2, tab3, revised>>

Next ==
    \/ GetData
    \/ DataNotFound
    \/ CalculateAndSlice
    \/ MetricCards
    \/ Tab1
    \/ Tab2
    \/ Tab3
    \/ Tab4

Spec == Init /\ [][Next]_vars

\* ------------------------------------------------------------- page claims
Terminal == pc \in {"done", "stopped"}
DatesOf(df) == {df.index[p] : p \in 1..len(df)}

\* C1: a view window of n bars gets a forecast whenever n >= 10, and the
\* "not enough data points" outcome only when n < 10.
C1_ForecastFromTenBars ==
    tab4 # None =>
        /\ len(view_df1) >= 10 => tab4.kind = "forecast"
        /\ tab4.kind = "warning" => len(view_df1) < 10

\* C2: the k-th forecast point (k = 1..30) is the fitted line at x = n+k-1,
\* paired with lastDate + k; for a perfectly linear input y = a*x + b the
\* first forecast value is a*n + b.
C2_ForecastContinuesLine ==
    (tab4 # None /\ tab4.kind = "forecast") =>
        LET n == len(view_df1)
            y == view_df1.Close
            a == y[2] - y[1]
        IN  /\ \A k \in 1..30 :
                  /\ tab4.future_X[k] = n + k - 1
                  /\ tab4.future_dates[k] = view_df1.index[n] + k
            /\ (\A p \in 2..n : y[p] - y[p - 1] = a)
                  => NumEq(tab4.forecast[1], Num(a * n + y[1], 1))

\* C4: a view window of exactly one bar does not end in the page-level
\* error: volatility is zero or unavailable and the cards and the price,
\* technicals and forecast sections are all rendered.
C4_SingleBarDegrades ==
    (Terminal /\ view_df1 # None /\ len(view_df1) = 1) =>
        /\ page = "ok"
        /\ cards # None /\ tab1 # None /\ tab2 # None /\ tab4 # None

\* C5: every displayed figure (price, volatility, correlation coefficient,
\* forecast slope) is a defined number, never NaN.
C5_NoNaNDisplayed ==
    /\ cards # None => (~isna(cards.price) /\ ~isna(cards.volatility))
    /\ (tab3 # None /\ tab3.kind = "comparison") => tab3.corr.k # "nan"
    /\ (tab4 # None /\ tab4.kind = "forecast") => ~isna(tab4.z[1])

\* C6: when the provider raises or returns nothing for the primary ticker,
\* get_data returns (None, None) and the page ends in "Data not found."
\* with no indicator, comparison or forecast computed.
C6_FailedFetchIsDataNotFound ==
    (pc # "start" /\ resp1 \in {"exception", "empty"}) =>
        /\ raw_df1 = None /\ view_start1 = NoDate
        /\ pc \in {"guard", "done"}
        /\ page = (IF pc = "done" THEN "data_not_found" ELSE "running")
        /\ df1 = None /\ view_df1 = None /\ cards = None
        /\ tab1 = None /\ tab2 = None /\ tab3 = None /\ tab4 = None

\* the page ended in "Data not found." after the provider raised
C6_Witness ==
    pc = "done" /\ resp1 = "exception" /\ page = "data_not_found"

\* C7: the common dates are exactly the dates of both series at or after
\* the view start, ascending; both curves take their base at the first
\* common date and are 0 there.
C7_CommonDatesAndBaseline ==
    (tab3 # None /\ tab3.kind = "comparison") =>
        LET idx == tab3.common_idx
            both == {d \in DatesOf(df1) \cap DatesOf(raw_df2) : d >= view_start1}
            first == CHOOSE d \in both : \A e \in both : d <= e
        IN  /\ {idx[i] : i \in 1..Len(idx)} = both
            /\ \A i, j \in 1..Len(idx) : i < j => idx[i] < idx[j]
            /\ idx[1] = first
            /\ \E p \in 1..len(df1) :
                  df1.index[p] = first /\ tab3.base1 = df1.Close[p]
            /\ \E q \in 1..len(raw_df2) :
                  raw_df2.index[q] = first /\ tab3.base2 = raw_df2.Close[q]
            /\ Len(tab3.norm1) = Len(idx) /\ Len(tab3.norm2) = Len(idx)
            /\ NumEq(tab3.norm1[1], Num(0, 1))
            /\ NumEq(tab3.norm2[1], Num(0, 1))

\* a comparison over several common dates, with common dates before the
\* view start left out and both curves moving away from 0
C7_Witness ==
    /\ tab3 # None /\ tab3.kind = "comparison"
    /\ Len(tab3.common_idx) >= 2
    /\ \E d \in DatesOf(df1) \cap DatesOf(raw_df2) : d < view_start1
    /\ \E i \in 1..Len(tab3.common_idx) :
          tab3.norm1[i].n # 0 /\ tab3.norm2[i].n # 0

\* C8: with a comparison series that shares no date with the primary one at
\* or after the view start, the comparison section ends in the no-overlap
\* warning, no fault is raised and the primary sections are all rendered.
C8_NoOverlapKeepsPrimary ==
    (/\ Terminal
     /\ raw_df2 # None
     /\ view_df1 # None /\ ~empty(view_df1)
     /\ Len(common_idx_of(df1, raw_df2, view_start1)) = 0) =>
        /\ page = "ok"
        /\ tab3 = [kind |-> "warning"]
        /\ cards # None /\ tab1 # None /\ tab2 # None /\ tab4 # None

\* ------------------------------------------------------- indicator model
\* Inputs of calculate_metrics: the series a fetch can return, 1 to
\* MaxSeriesLen bars.
BumpPositions(n) == {0} \cup {j \in {1, 2, RSIWindow + 1, n - 1, n} : 1 <= j /\ j <= n}

MetricsInit ==
    /\ pc = "calc"
    /\ comp_ticker = FALSE
    /\ resp1 = "data"
    /\ \E n \in 1..MaxSeriesLen, slope \in Slopes :
         \E bumpAt \in BumpPositions(n) :
            raw_df1 = Frame(Daily(n), Closes(n, slope, bumpAt))
    /\ view_start1 = 1
    /\ raw_df2 = None
    /\ df1 = None
    /\ view_df1 = None
    /\ cards = None /\ tab1 = None /\ tab2 = None /\ tab3 = None /\ tab4 = None
    /\ page = "running"
    /\ revised = 0

\* df1 = calculate_metrics(raw_df1)
ApplyCalculateMetrics ==
    /\ pc = "calc"
    /\ df1' = calculate_metrics(raw_df1)
    /\ raw_df1' = df1'         \* the columns are added in place
    /\ pc' = "calculated"
    /\ UNCHANGED <<comp_ticker, resp1, view_start1, raw_df2, view_df1,
                   cards, tab1, tab2, tab3, tab4, page, revised>>

\* The provider revises the close of one bar and the indicators are
\* recomputed over the revised series (a rerun after the cache expired).
ReviseBar ==
    /\ pc = "calculated"
    /\ revised = 0
    /\ \E j \in BumpPositions(len(raw_df1)) \ {0} :
         /\ revised' = j
         /\ df1' = calculate_metrics([raw_df1 EXCEPT !.Close[j] = @ + 1])
         /\ raw_df1' = df1'
    /\ UNCHANGED <<pc, comp_ticker, resp1, view_start1, raw_df2, view_df1,
                   cards, tab1, tab2, tab3, tab4, page>>

MetricsNext == ApplyCalculateMetrics \/ ReviseBar

MetricsSpec == MetricsInit /\ [][MetricsNext]_vars

\* ------------------------------------------------------ indicator claims
\* losses of the 14 price changes ending at position p (p >= 15)
LossSum14(close, p) ==
    SumRange([q \in 1..Len(close) |->
                 IF q > 1 /\ close[q] < close[q - 1] THEN close[q - 1] - close[q] ELSE 0],
             p - 13, p)

\* C3: wherever the trailing window of 14 price changes is complete (index
\* i >= 14) and its average loss is 0, RSI is exactly 100 (flat prices
\* included); and every non-null RSI lies in [0, 100].
C3_RSIZeroLossIs100 ==
    (pc = "calculated" /\ df1.hascols) =>
        \A p \in 1..len(df1) :
            /\ (p >= 15 /\ LossSum14(df1.Close, p) = 0)
                  => NumEq(df1.RSI[p], Num(100, 1))
            /\ IsNum(df1.RSI[p])
                  => (~NumLt(df1.RSI[p], Num(0, 1)) /\ ~NumGt(df1.RSI[p], Num(100, 1)))

\* C9: RSI is null at each of the first 14 positions (indices 0..13).
C9_RSIWarmup ==
    (pc = "calculated" /\ df1.hascols) =>
        \A p \in 1..len(df1) : p <= 14 => isna(df1.RSI[p])

\* C10: for a series of at least 2 bars SMA_50 is null at every index
\* i < 49 and is the arithmetic mean of close[i-49..i] at every index
\* i >= 49; and revising a bar leaves SMA_50 at every earlier bar unchanged.
C10_SMA50TrailingMean ==
    [][/\ (pc' = "calculated" /\ len(raw_df1') >= 2) =>
            \A p \in 1..len(df1') :
                IF p - 1 < 49 THEN isna(df1'.SMA_50[p])
                ELSE /\ IsNum(df1'.SMA_50[p])
                     /\ 50 * df1'.SMA_50[p].n
                          = df1'.SMA_50[p].d * SumRange(raw_df1'.Close, p - 49, p)
       /\ (pc = "calculated" /\ revised = 0 /\ revised' # 0 /\ df1.hascols) =>
            \A p \in 1..len(df1) : p < revised' => df1'.SMA_50[p] = df1.SMA_50[p]
      ]_vars

\* a bar after a non-null SMA_50 value was revised
C10_Witness ==
    /\ pc = "calculated"
    /\ revised > 50
    /\ IsNum(df1.SMA_50[50])

====
